---- MODULE Spec2Model ----
(***************************************************************************)
(* Model of aiicy-function-python3/function-python3.py: the gRPC function  *)
(* host.  The main thread loads the configuration and the handler          *)
(* registry, starts the server, installs signal handlers and sleeps; the   *)
(* server's thread pool runs mo.Call for every inbound request.            *)
(*                                                                         *)
(* Bytes and strings are sequences of one-character strings; python values *)
(* are tagged records; paths are sequences of directory names below "/".   *)
(***************************************************************************)
EXTENDS Integers, Sequences, FiniteSets, TLC

\* ------------------------------------------------------------------ bounds
\* size of the server's thread pool when the configuration does not cap it
NumWorkers == 2

\* the seconds the model follows after server.stop
MaxElapsed == 3

\* ------------------------------------------------------------ python values
PyNone == [t |-> "none"]
PyInt(n) == [t |-> "int", i |-> n]
PyStr(s) == [t |-> "str", s |-> s]
PyBytes(b) == [t |-> "bytes", b |-> b]
PyList(xs) == [t |-> "list", items |-> xs]
PyTuple(xs) == [t |-> "tuple", items |-> xs]
\* a dict is its sequence of (key, value) pairs in insertion order
PyDict(ps) == [t |-> "dict", pairs |-> ps]
\* a value json cannot serialise (a set, an arbitrary object)
PyObject == [t |-> "object"]
PyBool(b) == [t |-> "bool", b |-> b]

Chars(str) ==
  CASE str = "null" -> <<"n", "u", "l", "l">>
    [] str = "true" -> <<"t", "r", "u", "e">>
    [] str = "false" -> <<"f", "a", "l", "s", "e">>

DigitChars == <<"0", "1", "2", "3", "4", "5", "6", "7", "8", "9">>

DigitOf(c) == (CHOOSE k \in 1..10 : DigitChars[k] = c) - 1

IsDigit(c) == \E k \in 1..10 : DigitChars[k] = c

IsWs(c) == c \in {" ", "\n", "\t", "\r"}

\* str(n) for an int n
RECURSIVE NatChars(_)
NatChars(n) ==
  IF n < 10 THEN <<DigitChars[n + 1]>>
  ELSE NatChars(n \div 10) \o <<DigitChars[(n % 10) + 1]>>

IntChars(n) == IF n < 0 THEN <<"-">> \o NatChars(0 - n) ELSE NatChars(n)

\* ------------------------------------------------------------- json.dumps
\* json.dumps(v) with the default separators (', ', ': '): [ok, out];
\* ok = FALSE stands for the TypeError of an unserialisable value.
DumpsFail == [ok |-> FALSE, out |-> <<>>]

\* a dict key as json.dumps writes it: str as is, int/bool/None coerced to str
DumpsKey(k) ==
  CASE k.t = "str" -> [ok |-> TRUE, out |-> <<"\"">> \o k.s \o <<"\"">>]
    [] k.t = "int" -> [ok |-> TRUE, out |-> <<"\"">> \o IntChars(k.i) \o <<"\"">>]
    [] k.t = "bool" -> [ok |-> TRUE, out |-> <<"\"">> \o Chars(IF k.b THEN "true" ELSE "false") \o <<"\"">>]
    [] k.t = "none" -> [ok |-> TRUE, out |-> <<"\"">> \o Chars("null") \o <<"\"">>]
    [] OTHER -> DumpsFail

RECURSIVE Dumps(_)
RECURSIVE DumpsItems(_, _)
RECURSIVE DumpsPairs(_, _)

DumpsItems(xs, first) ==
  IF xs = <<>> THEN [ok |-> TRUE, out |-> <<>>]
  ELSE LET h == Dumps(Head(xs))
           r == DumpsItems(Tail(xs), FALSE)
       IN IF h.ok /\ r.ok
          THEN [ok |-> TRUE, out |-> (IF first THEN <<>> ELSE <<",", " ">>) \o h.out \o r.out]
          ELSE DumpsFail

DumpsPairs(ps, first) ==
  IF ps = <<>> THEN [ok |-> TRUE, out |-> <<>>]
  ELSE LET k == DumpsKey(Head(ps).k)
           v == Dumps(Head(ps).v)
           r == DumpsPairs(Tail(ps), FALSE)
       IN IF k.ok /\ v.ok /\ r.ok
          THEN [ok |-> TRUE,
                out |-> (IF first THEN <<>> ELSE <<",", " ">>) \o k.out \o <<":", " ">> \o v.out \o r.out]
          ELSE DumpsFail

Dumps(v) ==
  CASE v.t = "none" -> [ok |-> TRUE, out |-> Chars("null")]
    [] v.t = "bool" -> [ok |-> TRUE, out |-> Chars(IF v.b THEN "true" ELSE "false")]
    [] v.t = "int" -> [ok |-> TRUE, out |-> IntChars(v.i)]
    [] v.t = "str" -> [ok |-> TRUE, out |-> <<"\"">> \o v.s \o <<"\"">>]
    [] v.t \in {"list", "tuple"} ->
         LET r == DumpsItems(v.items, TRUE)
         IN IF r.ok THEN [ok |-> TRUE, out |-> <<"[">> \o r.out \o <<"]">>] ELSE DumpsFail
    [] v.t = "dict" ->
         LET r == DumpsPairs(v.pairs, TRUE)
         IN IF r.ok THEN [ok |-> TRUE, out |-> <<"{">> \o r.out \o <<"}">>] ELSE DumpsFail
    [] OTHER -> DumpsFail

\* ------------------------------------------------------------- json.loads
\* A recursive-descent reading of the JSON grammar python's decoder accepts,
\* over the characters the model uses (no escapes, no fractions/exponents).
\* Each parser returns [ok, val, pos]: pos is the index of the next character.
ParseFail == [ok |-> FALSE, val |-> PyNone, pos |-> 0]

RECURSIVE SkipWs(_, _)
SkipWs(s, i) == IF i <= Len(s) /\ IsWs(s[i]) THEN SkipWs(s, i + 1) ELSE i

\* s has the characters of lit starting at i
HasLit(s, i, lit) ==
  /\ i + Len(lit) - 1 <= Len(s)
  /\ \A k \in 1..Len(lit) : s[i + k - 1] = lit[k]

RECURSIVE ScanDigits(_, _, _)
ScanDigits(s, i, acc) ==
  IF i <= Len(s) /\ IsDigit(s[i]) THEN ScanDigits(s, i + 1, acc * 10 + DigitOf(s[i]))
  ELSE [n |-> acc, pos |-> i]

\* -?(0|[1-9][0-9]*)
ParseInt(s, i) ==
  LET neg == i <= Len(s) /\ s[i] = "-"
      j == IF neg THEN i + 1 ELSE i
  IN IF j > Len(s) \/ ~IsDigit(s[j]) THEN ParseFail
     ELSE IF s[j] = "0" THEN [ok |-> TRUE, val |-> PyInt(0), pos |-> j + 1]
     ELSE LET d == ScanDigits(s, j, 0)
          IN [ok |-> TRUE, val |-> PyInt(IF neg THEN 0 - d.n ELSE d.n), pos |-> d.pos]

RECURSIVE ScanString(_, _)
\* index of the closing quote at or after i, 0 when there is none
ScanString(s, i) ==
  IF i > Len(s) THEN 0
  ELSE IF s[i] = "\"" THEN i
  ELSE IF s[i] \in {"\\", "\n", "\t", "\r"} THEN 0
  ELSE ScanString(s, i + 1)

\* s[i] is the opening quote
ParseString(s, i) ==
  LET e == ScanString(s, i + 1)
  IN IF e = 0 THEN ParseFail
     ELSE [ok |-> TRUE, val |-> PyStr(SubSeq(s, i + 1, e - 1)), pos |-> e + 1]

\* d[k] = v on a dict kept as a sequence of pairs
RECURSIVE DictSet(_, _, _)
DictSet(ps, k, v) ==
  IF ps = <<>> THEN <<[k |-> k, v |-> v]>>
  ELSE IF Head(ps).k = k THEN <<[k |-> k, v |-> v]>> \o Tail(ps)
  ELSE <<Head(ps)>> \o DictSet(Tail(ps), k, v)

RECURSIVE ParseValue(_, _)
RECURSIVE ParseItems(_, _, _)
RECURSIVE ParsePairs(_, _, _)

\* after '[' or ',': value ws (',' ws items | ']')
ParseItems(s, i, acc) ==
  LET v == ParseValue(s, i)
  IN IF ~v.ok THEN ParseFail
     ELSE LET j == SkipWs(s, v.pos)
          IN IF j > Len(s) THEN ParseFail
             ELSE IF s[j] = "]" THEN [ok |-> TRUE, val |-> PyList(Append(acc, v.val)), pos |-> j + 1]
             ELSE IF s[j] = "," THEN ParseItems(s, SkipWs(s, j + 1), Append(acc, v.val))
             ELSE ParseFail

\* after '{' or ',': string ws ':' ws value ws (',' ws pairs | '}')
ParsePairs(s, i, acc) ==
  IF i > Len(s) \/ s[i] # "\"" THEN ParseFail
  ELSE LET k == ParseString(s, i)
       IN IF ~k.ok THEN ParseFail
          ELSE LET c == SkipWs(s, k.pos)
               IN IF c > Len(s) \/ s[c] # ":" THEN ParseFail
                  ELSE LET v == ParseValue(s, SkipWs(s, c + 1))
                       IN IF ~v.ok THEN ParseFail
                          ELSE LET j == SkipWs(s, v.pos)
                                   d == DictSet(acc, k.val, v.val)
                               IN IF j > Len(s) THEN ParseFail
                                  ELSE IF s[j] = "}" THEN [ok |-> TRUE, val |-> PyDict(d), pos |-> j + 1]
                                  ELSE IF s[j] = "," THEN ParsePairs(s, SkipWs(s, j + 1), d)
                                  ELSE ParseFail

ParseValue(s, i) ==
  IF i > Len(s) THEN ParseFail
  ELSE CASE s[i] = "\"" -> ParseString(s, i)
         [] s[i] = "{" ->
              LET j == SkipWs(s, i + 1)
              IN IF j <= Len(s) /\ s[j] = "}" THEN [ok |-> TRUE, val |-> PyDict(<<>>), pos |-> j + 1]
                 ELSE ParsePairs(s, j, <<>>)
         [] s[i] = "[" ->
              LET j == SkipWs(s, i + 1)
              IN IF j <= Len(s) /\ s[j] = "]" THEN [ok |-> TRUE, val |-> PyList(<<>>), pos |-> j + 1]
                 ELSE ParseItems(s, j, <<>>)
         [] s[i] = "n" ->
              IF HasLit(s, i, Chars("null")) THEN [ok |-> TRUE, val |-> PyNone, pos |-> i + 4] ELSE ParseFail
         [] s[i] = "t" ->
              IF HasLit(s, i, Chars("true")) THEN [ok |-> TRUE, val |-> PyBool(TRUE), pos |-> i + 4] ELSE ParseFail
         [] s[i] = "f" ->
              IF HasLit(s, i, Chars("false")) THEN [ok |-> TRUE, val |-> PyBool(FALSE), pos |-> i + 5] ELSE ParseFail
         [] s[i] = "-" \/ IsDigit(s[i]) -> ParseInt(s, i)
         [] OTHER -> ParseFail

\* json.loads(b): ws value ws end-of-input; ok = FALSE stands for the
\* JSONDecodeError (no value, malformed value, or extra data after it)
Loads(b) ==
  LET v == ParseValue(b, SkipWs(b, 1))
  IN IF v.ok /\ SkipWs(b, v.pos) > Len(b) THEN [ok |-> TRUE, val |-> v.val]
     ELSE [ok |-> FALSE, val |-> PyNone]

\* ------------------------------------------------------------- filesystem
\* A path is the sequence of directory names below "/".  os.getcwd() at
\* process start, and the directories that exist.
Base == <<"srv">>

ExistingDirs == {<<>>, <<"srv">>, <<"srv", "a">>, <<"srv", "b">>, <<"tmp">>}

\* a configured directory: relative to the working directory, or absolute
Rel(comps) == [abs |-> FALSE, comps |-> comps]
Abs(comps) == [abs |-> TRUE, comps |-> comps]

\* os.path.join(cur, p): an absolute second argument discards the first
PathJoin(cur, p) == IF p.abs THEN p.comps ELSE cur \o p.comps

\* os.chdir(target): FileNotFoundError unless the directory exists
ChdirOk(target) == target \in ExistingDirs

\* the files open() can read (TLS material)
ReadableFiles == {"ca.pem", "key.pem", "cert.pem"}

\* the python source on disk: module m.py, present in /srv/a and /srv/b
HasModuleFile(dir, modname) == dir \in {<<"srv", "a">>, <<"srv", "b">>} /\ modname = "m"

\* ------------------------------------------------------- handler classes
\* The user code in m.py.  Each class is described by what its constructor
\* and its handler(msg, ctx) do: return msg, return a fixed value, raise,
\* and optionally change the working directory or overwrite the entries of
\* ctx first.
NoChdir == [set |-> FALSE, to |-> <<>>]
ChdirTo(p) == [set |-> TRUE, to |-> p]

HandlerClasses ==
  [Echo |-> [ctor |-> "ok", kind |-> "echo", val |-> PyNone, cd |-> NoChdir, setctx |-> FALSE],
   Boom |-> [ctor |-> "ok", kind |-> "raise", val |-> PyNone, cd |-> NoChdir, setctx |-> FALSE],
   RetNone |-> [ctor |-> "ok", kind |-> "const", val |-> PyNone, cd |-> NoChdir, setctx |-> FALSE],
   RetBytes |-> [ctor |-> "ok", kind |-> "const", val |-> PyBytes(<<"{", "x">>), cd |-> NoChdir,
                 setctx |-> FALSE],
   RetList |-> [ctor |-> "ok", kind |-> "const",
                val |-> PyList(<<PyInt(1), PyStr(<<"a">>), PyNone>>), cd |-> NoChdir, setctx |-> FALSE],
   RetTuple |-> [ctor |-> "ok", kind |-> "const",
                 val |-> PyTuple(<<PyInt(1), PyInt(2)>>), cd |-> NoChdir, setctx |-> FALSE],
   RetIntKey |-> [ctor |-> "ok", kind |-> "const",
                  val |-> PyDict(<<[k |-> PyInt(1), v |-> PyBool(TRUE)]>>), cd |-> NoChdir,
                  setctx |-> FALSE],
   RetObject |-> [ctor |-> "ok", kind |-> "const", val |-> PyObject, cd |-> NoChdir, setctx |-> FALSE],
   Mover |-> [ctor |-> "ok", kind |-> "echo", val |-> PyNone, cd |-> ChdirTo(<<"tmp">>), setctx |-> FALSE],
   MoverBoom |-> [ctor |-> "ok", kind |-> "raise", val |-> PyNone, cd |-> ChdirTo(<<"tmp">>),
                  setctx |-> FALSE],
   CtxWriter |-> [ctor |-> "ok", kind |-> "echo", val |-> PyNone, cd |-> NoChdir, setctx |-> TRUE],
   BadCtor |-> [ctor |-> "raise", kind |-> "echo", val |-> PyNone, cd |-> NoChdir, setctx |-> FALSE]]

\* what CtxWriter leaves in the dict it was given
OverwrittenCtx ==
  [messageQOS |-> 0,
   messageTopic |-> "x",
   messageTimestamp |-> 0,
   functionName |-> "x",
   functionInvokeID |-> "x",
   invokeid |-> "x"]

\* handler(msg, ctx) of an instance of class cls, entered with working
\* directory dir: [raised, ret, cwd, ctx]
HandlerRun(cls, msg, ctx, dir) ==
  LET h == HandlerClasses[cls]
  IN [raised |-> h.kind = "raise",
      ret |-> IF h.kind = "echo" THEN msg ELSE h.val,
      cwd |-> IF h.cd.set THEN h.cd.to ELSE dir,
      ctx |-> IF h.setctx THEN OverwrittenCtx ELSE ctx]

\* a handler instance: its class and the codedir its constructor was given;
\* get_codedir() returns that codedir
Instance(cls, codedir) == [cls |-> cls, codedir |-> codedir]
GetCodedir(inst) == inst.codedir

\* ---------------------------------------------------------- configuration
\* The parsed YAML is a record whose optional keys are present or absent in
\* its DOMAIN, as in the python dict.
FEcho == [name |-> "echo", handler |-> <<"m", "Echo">>, codedir |-> Rel(<<"a">>)]
FBoom == [name |-> "boom", handler |-> <<"m", "Boom">>, codedir |-> Rel(<<"b">>)]
FSpec(n, cls, dir) == [name |-> n, handler |-> <<"m", cls>>, codedir |-> dir]

Address == "0.0.0.0:50051"

Conf(server, functions) == [name |-> "svc", server |-> server, functions |-> functions]

\* nanoseconds in server.timeout
Timeout == 2000000000

\* 1e9 (line 72): nanoseconds in a second
NanosPerSecond == 1000000000

\* configurations that load.  ConcConfs: echo and boom served by a pool of
\* two threads, with a grace period; echo alone, under an absolute code
\* directory.  SeqConfs: a pool of one thread, with relative or absolute code
\* directories, and a service whose handlers return every kind of value.
ConcConfs ==
  {Conf([address |-> Address, workers |-> [max |-> 2], timeout |-> Timeout], <<FEcho, FBoom>>),
   Conf([address |-> Address, workers |-> [max |-> 2]], <<FSpec("echo", "Echo", Abs(<<"srv", "a">>))>>)}

SeqConfs ==
  {Conf([address |-> Address, workers |-> [max |-> 1], timeout |-> Timeout], <<FEcho, FBoom>>),
   Conf([address |-> Address, workers |-> [max |-> 1], concurrent |-> [max |-> 1]],
        <<FSpec("echo", "Echo", Abs(<<"srv", "a">>)), FSpec("boom", "MoverBoom", Abs(<<"srv", "b">>))>>),
   Conf([address |-> Address, workers |-> [max |-> 1], ca |-> "ca.pem", key |-> "key.pem", cert |-> "cert.pem"],
        <<FSpec("none", "RetNone", Rel(<<"a">>)), FSpec("bytes", "RetBytes", Rel(<<"a">>)),
          FSpec("list", "RetList", Rel(<<"a">>)), FSpec("tuple", "RetTuple", Rel(<<"a">>)),
          FSpec("intkey", "RetIntKey", Rel(<<"a">>)), FSpec("object", "RetObject", Rel(<<"a">>)),
          FSpec("echo", "Echo", Rel(<<"a">>)), FSpec("mover", "Mover", Rel(<<"b">>)),
          FSpec("ctx", "CtxWriter", Rel(<<"a">>))>>)}

\* two entries with the same name
DupConfs ==
  {Conf([address |-> Address, workers |-> [max |-> 1]],
        <<FSpec("echo", "Boom", Rel(<<"b">>)), FSpec("echo", "Echo", Rel(<<"a">>))>>)}

\* configurations with a fatal startup error
BadConfs ==
  {[server |-> [address |-> Address, workers |-> [max |-> 1]], functions |-> <<FEcho>>],
   [name |-> "svc", functions |-> <<FEcho>>],
   [name |-> "svc", server |-> [workers |-> [max |-> 1]], functions |-> <<FEcho>>],
   [name |-> "svc", server |-> [address |-> Address]],
   Conf([address |-> Address], <<FEcho, [name |-> "boom", handler |-> <<"m", "Boom">>]>>),
   Conf([address |-> Address], <<[handler |-> <<"m", "Echo">>, codedir |-> Rel(<<"a">>)]>>),
   Conf([address |-> Address], <<FEcho, [name |-> "boom", codedir |-> Rel(<<"b">>)]>>),
   Conf([address |-> Address], <<FEcho, FSpec("boom", "Boom", Rel(<<"zz">>))>>),
   Conf([address |-> Address], <<FEcho, [name |-> "boom", handler |-> <<"nomod", "Boom">>, codedir |-> Rel(<<"b">>)]>>),
   Conf([address |-> Address], <<FEcho, [name |-> "boom", handler |-> <<"Boom">>, codedir |-> Rel(<<"b">>)]>>),
   Conf([address |-> Address], <<FEcho, FSpec("boom", "Missing", Rel(<<"b">>))>>),
   Conf([address |-> Address], <<FEcho, FSpec("boom", "BadCtor", Rel(<<"b">>))>>),
   Conf([address |-> Address, key |-> "key.pem", cert |-> "nocert.pem"], <<FEcho>>),
   Conf([address |-> Address, ca |-> "noca.pem"], <<FEcho>>)}

\* os.environ: the two overrides Load reads, each set or not
NoEnv == [PATH |-> "/bin"]

NameEnv == [PATH |-> "/bin", AIICY_SERVICE_INSTANCE_NAME |-> "inst"]
AddressEnv == [PATH |-> "/bin", AIICY_SERVICE_INSTANCE_ADDRESS |-> Address]

\* the runs of a service whose pool has one thread and the runs that fail at
\* startup (SeqInputs); the runs of a larger pool (ConcInputs: the address
\* override creates the missing server section, which then has no cap)
SeqInputs == (SeqConfs \X {NoEnv}) \cup ((DupConfs \cup BadConfs) \X {NoEnv, NameEnv})

ConcInputs == (ConcConfs \X {NoEnv}) \cup (BadConfs \X {AddressEnv})

\* ------------------------------------------------------------------ state
VARIABLES
  conf,      \* the parsed configuration file (input)
  environ,   \* os.environ (input)
  self,      \* the attributes set on the mo instance: config, modules
  cwd,       \* the process working directory
  syspath,   \* the entries load_modules appended to sys.path
  mainpc,    \* position of the main thread
  ld,        \* locals of load_modules: next index i and the dict fs
  server,    \* the grpc server object
  sighandlers, \* the signals whose handler is the module's exit()
  th,        \* the pool threads running mo.Call
  log        \* the records written to self.log, as a set of <<level, message>>

vars == <<conf, environ, self, cwd, syspath, mainpc, ld, server, sighandlers, th, log>>

Workers == 1..NumWorkers

EmptyMap == [n \in {} |-> PyNone]

\* d[k] = v on a python dict kept as a function
MapSet(d, k, v) == [n \in DOMAIN d \cup {k} |-> IF n = k THEN v ELSE d[n]]

\* the grpc server object: its stage, its pool and concurrency caps, and
\* what stop() was given (grace in seconds, set unless None) and how many
\* seconds ago
NoServer ==
  [state |-> "absent", max_workers |-> 0, max_concurrent |-> 0, secure |-> FALSE,
   stop_called |-> FALSE, grace_set |-> FALSE, grace |-> 0, elapsed |-> 0]

NoReq == [FunctionName |-> "", Payload |-> <<>>, QOS |-> 0, Topic |-> "", Timestamp |-> 0, FunctionInvokeID |-> ""]
NoCtx == [n \in {} |-> 0]
NoOut == [kind |-> "none"]

\* a pool thread with no call: every local back to its default.  rpc is the
\* state of the RPC the thread serves: "none", "active" or "aborted"
IdleThread ==
  [pc |-> "idle", req |-> NoReq, ctx |-> NoCtx, msg |-> PyNone, curr_path |-> <<>>,
   out |-> NoOut, cwd0 |-> <<>>, ran |-> <<>>, rpc |-> "none"]

InitWith(inputs) ==
  /\ \E inp \in inputs : conf = inp[1] /\ environ = inp[2]
  /\ self = [n \in {} |-> 0]
  /\ cwd = Base
  /\ syspath = <<>>
  /\ mainpc = "Load"
  /\ ld = [i |-> 1, fs |-> EmptyMap]
  /\ server = NoServer
  /\ sighandlers = {}
  /\ th = [t \in Workers |-> IdleThread]
  /\ log = {}

Init == InitWith(ConcInputs \cup SeqInputs)

\* ------------------------------------------------------------- mo.Load
\* lines 34-43: the configuration after the environment overrides
EffectiveConfig(c, env) ==
  LET c1 == IF "AIICY_SERVICE_INSTANCE_NAME" \in DOMAIN env
            THEN MapSet(c, "name", env.AIICY_SERVICE_INSTANCE_NAME) ELSE c
      c2 == IF "AIICY_SERVICE_INSTANCE_ADDRESS" \in DOMAIN env
            THEN MapSet(c1, "server",
                        MapSet(IF "server" \in DOMAIN c1 THEN c1.server ELSE [n \in {} |-> 0],
                               "address", env.AIICY_SERVICE_INSTANCE_ADDRESS))
            ELSE c1
  IN c2

\* lines 45-52: the checks that raise 'config invalid, missing ...'
ConfigValid(c) ==
  /\ "name" \in DOMAIN c
  /\ "server" \in DOMAIN c
  /\ "address" \in DOMAIN c.server
  /\ "functions" \in DOMAIN c

\* an exception that reaches the module level ends the process
MainRaise ==
  /\ mainpc' = "crashed"

\* Load, lines 34-54: read the configuration, apply the overrides, validate
LoadConfig ==
  /\ mainpc = "Load"
  /\ LET c == EffectiveConfig(conf, environ)
     IN /\ self' = MapSet(self, "config", c)
        /\ IF ConfigValid(c) THEN mainpc' = "load_modules" ELSE MainRaise
  /\ UNCHANGED <<conf, environ, cwd, syspath, ld, server, sighandlers, th, log>>

\* one iteration of the loop of load_modules (lines 134-146) for the entry
\* fc, started in directory dir: [raised, cwd, fs, syspath]
LoadOne(fc, dir, fs, sp) ==
  IF ~({"name", "handler", "codedir"} \subseteq DOMAIN fc)
  THEN [raised |-> TRUE, cwd |-> dir, fs |-> fs, syspath |-> sp]
  ELSE LET sp1 == Append(sp, fc.codedir)
           module_handler == SubSeq(fc.handler, 1, Len(fc.handler) - 1)
           handler_name == fc.handler[Len(fc.handler)]
           curr_path == dir
           target == PathJoin(curr_path, fc.codedir)
           fail(d) == [raised |-> TRUE, cwd |-> d, fs |-> fs, syspath |-> sp1]
       IN IF ~ChdirOk(target) THEN fail(dir)
          ELSE IF module_handler = <<>> THEN fail(target)
          ELSE IF ~HasModuleFile(target, module_handler[Len(module_handler)]) THEN fail(target)
          ELSE IF handler_name \notin DOMAIN HandlerClasses THEN fail(target)
          ELSE IF HandlerClasses[handler_name].ctor = "raise" THEN fail(target)
          ELSE [raised |-> FALSE, cwd |-> curr_path,
                fs |-> MapSet(fs, fc.name, Instance(handler_name, fc.codedir)),
                syspath |-> sp1]

\* LoadModulesIter with a partial-availability mode: an entry that fails to
\* load is skipped and the loop goes on
LoadModulesIterSkipFailed ==
  /\ mainpc = "load_modules"
  /\ ld.i <= Len(self.config.functions)
  /\ LET r == LoadOne(self.config.functions[ld.i], cwd, ld.fs, syspath)
     IN /\ cwd' = r.cwd
        /\ syspath' = r.syspath
        /\ ld' = [i |-> ld.i + 1, fs |-> r.fs]
        /\ mainpc' = mainpc
  /\ UNCHANGED <<conf, environ, self, server, sighandlers, th, log>>

\* load_modules, one pass of the for loop
LoadModulesIter ==
  /\ mainpc = "load_modules"
  /\ ld.i <= Len(self.config.functions)
  /\ LET r == LoadOne(self.config.functions[ld.i], cwd, ld.fs, syspath)
     IN /\ cwd' = r.cwd
        /\ syspath' = r.syspath
        /\ ld' = [i |-> IF r.raised THEN ld.i ELSE ld.i + 1, fs |-> r.fs]
        /\ IF r.raised THEN MainRaise ELSE mainpc' = mainpc
  /\ UNCHANGED <<conf, environ, self, server, sighandlers, th, log>>

\* load_modules returns fs (line 147) and Load binds it (line 55)
LoadModulesReturn ==
  /\ mainpc = "load_modules"
  /\ ld.i > Len(self.config.functions)
  /\ self' = MapSet(self, "modules", ld.fs)
  /\ mainpc' = "get_grpc_server"
  /\ UNCHANGED <<conf, environ, cwd, syspath, ld, server, sighandlers, th, log>>

\* get_grpc_server, lines 172-180: every configured TLS file is opened
TlsReadable(c) == \A k \in {"ca", "key", "cert"} \cap DOMAIN c : c[k] \in ReadableFiles

\* GetGrpcServer that does not open the TLS files: unreadable material goes
\* unnoticed
GetGrpcServerNoTlsRead ==
  /\ mainpc = "get_grpc_server"
  /\ LET c == self.config.server
     IN server' = [state |-> "created",
                   max_workers |-> IF "workers" \in DOMAIN c /\ "max" \in DOMAIN c.workers
                                   THEN c.workers.max ELSE NumWorkers,
                   max_concurrent |-> IF "concurrent" \in DOMAIN c /\ "max" \in DOMAIN c.concurrent
                                      THEN c.concurrent.max ELSE 0,
                   secure |-> "key" \in DOMAIN c /\ "cert" \in DOMAIN c,
                   stop_called |-> FALSE, grace_set |-> FALSE, grace |-> 0, elapsed |-> 0]
  /\ mainpc' = "Start"
  /\ UNCHANGED <<conf, environ, self, cwd, syspath, ld, sighandlers, th, log>>

\* get_grpc_server (lines 155-192) and the servicer registration (line 57)
GetGrpcServer ==
  /\ mainpc = "get_grpc_server"
  /\ LET c == self.config.server
     IN IF TlsReadable(c)
        THEN /\ server' = [state |-> "created",
                           max_workers |-> IF "workers" \in DOMAIN c /\ "max" \in DOMAIN c.workers
                                           THEN c.workers.max ELSE NumWorkers,
                           max_concurrent |-> IF "concurrent" \in DOMAIN c /\ "max" \in DOMAIN c.concurrent
                                              THEN c.concurrent.max ELSE 0,
                           secure |-> "key" \in DOMAIN c /\ "cert" \in DOMAIN c,
                   stop_called |-> FALSE, grace_set |-> FALSE, grace |-> 0, elapsed |-> 0]
             /\ mainpc' = "Start"
        ELSE /\ MainRaise
             /\ server' = server
  /\ UNCHANGED <<conf, environ, self, cwd, syspath, ld, sighandlers, th, log>>

\* mo.Start (lines 59-64), called from line 256
Start ==
  /\ mainpc = "Start"
  /\ log' = log \cup {<<"info", "service starting">>}
  /\ server' = [server EXCEPT !.state = "serving"]
  /\ mainpc' = "signal_int"
  /\ UNCHANGED <<conf, environ, self, cwd, syspath, ld, sighandlers, th>>

\* ------------------------------------------------- signals and mo.Close
Signals == {"SIGINT", "SIGTERM"}

ProcessAlive == mainpc \notin {"crashed", "killed", "exited"}

\* the interpreter is gone or going: the server takes no further call
ServerDown(srv) == IF srv.state = "absent" THEN srv ELSE [srv EXCEPT !.state = "stopped"]

\* line 263
InstallSigint ==
  /\ mainpc = "signal_int"
  /\ sighandlers' = sighandlers \cup {"SIGINT"}
  /\ mainpc' = "signal_term"
  /\ UNCHANGED <<conf, environ, self, cwd, syspath, ld, server, th, log>>

\* line 264; the main thread then enters the try block and sleeps (266-268)
InstallSigterm ==
  /\ mainpc = "signal_term"
  /\ sighandlers' = sighandlers \cup {"SIGTERM"}
  /\ mainpc' = "sleep"
  /\ UNCHANGED <<conf, environ, self, cwd, syspath, ld, server, th, log>>

\* A signal reaches the process.  With exit() installed (lines 259-264) the
\* main thread raises SystemExit where it stands: inside the try block the
\* finally clause runs Close, anywhere else the exception ends the main
\* thread.  Without it SIGTERM kills the process, pool threads included, and
\* SIGINT raises KeyboardInterrupt in the main thread.
Signal(sig) ==
  /\ ProcessAlive
  /\ IF sig \in sighandlers \/ sig = "SIGINT"
     THEN /\ IF mainpc = "sleep"
             THEN mainpc' = "Close" /\ server' = server
             ELSE mainpc' = (IF sig \in sighandlers THEN "exited" ELSE "crashed")
                  /\ server' = ServerDown(server)
          /\ th' = th
     ELSE /\ mainpc' = "killed"
          /\ server' = ServerDown(server)
          /\ th' = [t \in Workers |-> IdleThread]
  /\ UNCHANGED <<conf, environ, self, cwd, syspath, ld, sighandlers, log>>

\* CloseGrace without the division of line 72: the nanoseconds of the
\* configuration are handed to server.stop as seconds
CloseGraceNanos(c) ==
  IF "timeout" \in DOMAIN c.server
  THEN [set |-> TRUE, secs |-> c.server.timeout]
  ELSE [set |-> FALSE, secs |-> 0]

\* lines 69-72: the grace period handed to server.stop, None without a
\* configured timeout
CloseGrace(c) ==
  IF "timeout" \in DOMAIN c.server
  THEN [set |-> TRUE, secs |-> c.server.timeout \div NanosPerSecond]
  ELSE [set |-> FALSE, secs |-> 0]

\* the transport aborts every RPC still active; the pool threads run on
AbortAll(threads) ==
  [t \in DOMAIN threads |->
     IF threads[t].rpc = "active" THEN [threads[t] EXCEPT !.rpc = "aborted"] ELSE threads[t]]

\* StopServer whose every call starts a grace period of its own: a second
\* stop gives the active RPCs a new deadline
StopServerRestart(srv, threads, grace) ==
  IF srv.state = "stopped" THEN [server |-> srv, th |-> threads]
  ELSE [server |-> [srv EXCEPT !.state = "grace", !.stop_called = TRUE, !.grace_set = grace.set,
                               !.grace = grace.secs, !.elapsed = 0],
        th |-> IF grace.set THEN threads ELSE AbortAll(threads)]

\* server.stop(grace), line 73: a stopped server is left alone; a serving one
\* takes no new RPC from now on and keeps the active ones until the grace
\* period ends, or aborts them at once when grace is None; a second stop
\* during the grace period does not move the earlier deadline
StopServer(srv, threads, grace) ==
  IF srv.state = "stopped" THEN [server |-> srv, th |-> threads]
  ELSE [server |-> IF srv.state = "serving"
                   THEN [srv EXCEPT !.state = "grace", !.stop_called = TRUE, !.grace_set = grace.set,
                                    !.grace = grace.secs, !.elapsed = 0]
                   ELSE srv,
        th |-> IF grace.set THEN threads ELSE AbortAll(threads)]

\* mo.Close (lines 66-74) on the server srv with the pool threads: the
\* server and threads it leaves, and whether stop blocks the caller until
\* every handler has returned (grace None)
CloseResult(srv, threads, c) ==
  LET grace == CloseGrace(c)
      r == StopServer(srv, threads, grace)
  IN [server |-> r.server, th |-> r.th, blocks |-> ~grace.set]

\* Close without line 73: it logs and returns, the server is left running
CloseNoStop ==
  /\ mainpc = "Close"
  /\ log' = log \cup {<<"info", "service closed">>}
  /\ mainpc' = "exited"
  /\ UNCHANGED <<conf, environ, self, cwd, syspath, ld, server, sighandlers, th>>

\* mo.Close, run by the finally clause (line 272), up to the return of
\* server.stop when a grace period is given
Close ==
  /\ mainpc = "Close"
  /\ LET r == CloseResult(server, th, self.config)
     IN /\ server' = r.server
        /\ th' = r.th
        /\ IF r.blocks
           THEN mainpc' = "stop_wait" /\ log' = log
           ELSE mainpc' = "exited" /\ log' = log \cup {<<"info", "service closed">>}
  /\ UNCHANGED <<conf, environ, self, cwd, syspath, ld, sighandlers>>

\* server.stop(None) returns once the server has stopped and every handler
\* has returned; Close logs (line 74) and the main thread ends
CloseReturn ==
  /\ mainpc = "stop_wait"
  /\ server.state = "stopped"
  /\ \A t \in Workers : th[t].pc = "idle"
  /\ log' = log \cup {<<"info", "service closed">>}
  /\ mainpc' = "exited"
  /\ UNCHANGED <<conf, environ, self, cwd, syspath, ld, server, sighandlers, th>>

\* a second of the grace period goes by while RPCs are active; at its end
\* those still active are aborted and the server is stopped
Tick ==
  /\ mainpc # "killed"
  /\ server.state = "grace"
  /\ server.grace_set
  /\ \E t \in Workers : th[t].rpc = "active"
  /\ server.elapsed < server.grace
  /\ server.elapsed < MaxElapsed
  /\ IF server.elapsed + 1 >= server.grace
     THEN /\ server' = [server EXCEPT !.elapsed = server.elapsed + 1, !.state = "stopped"]
          /\ th' = AbortAll(th)
     ELSE /\ server' = [server EXCEPT !.elapsed = server.elapsed + 1]
          /\ th' = th
  /\ UNCHANGED <<conf, environ, self, cwd, syspath, mainpc, ld, sighandlers, log>>

\* the stopping server has no active RPC left: it is stopped
ServerStopped ==
  /\ mainpc # "killed"
  /\ server.state = "grace"
  /\ \A t \in Workers : th[t].rpc # "active"
  /\ server' = [server EXCEPT !.state = "stopped"]
  /\ UNCHANGED <<conf, environ, self, cwd, syspath, mainpc, ld, sighandlers, th, log>>

\* ---------------------------------------------------------------- mo.Call
\* the request payloads clients send: '{"x":1}'; and for the runs of a
\* one-thread pool also '', '{"x' , 'null', ' [1, 20] ', '"a"', ' ', '01'
PayloadX1 == <<"{", "\"", "x", "\"", ":", "1", "}">>

Payloads == {PayloadX1}

SeqPayloads ==
  Payloads \cup
  {<<>>,
   <<"{", "\"", "x">>,
   <<"n", "u", "l", "l">>,
   <<" ", "[", "1", ",", " ", "2", "0", "]", " ">>,
   <<"\"", "a", "\"">>,
   <<" ">>,
   <<"0", "1">>}

UnknownName == "nope"

Request(fn, payload) ==
  [FunctionName |-> fn, Payload |-> payload, QOS |-> 1, Topic |-> "t", Timestamp |-> 7, FunctionInvokeID |-> "id1"]

\* the exception a Call ends with: Exception(args)
Error(args) == [kind |-> "error", args |-> args]
\* the response a Call returns: the request object with its new Payload
Response(req) == [kind |-> "response", resp |-> req]

InFlight == {t \in Workers : th[t].pc # "idle"}

\* the threads still run while the interpreter waits for them; a killed
\* process runs nothing
ThreadsRun == mainpc # "killed"

\* lines 84-90
BuildCtx(request) ==
  [messageQOS |-> request.QOS,
   messageTopic |-> request.Topic,
   messageTimestamp |-> request.Timestamp,
   functionName |-> request.FunctionName,
   functionInvokeID |-> request.FunctionInvokeID,
   invokeid |-> request.FunctionInvokeID]

\* DecodePayload without the test of line 93: json.loads fails on an empty
\* payload and the handler is given b''
DecodePayloadNoEmptyCase(payload) ==
  LET r == Loads(payload)
  IN IF r.ok THEN r.val ELSE PyBytes(payload)

\* lines 92-97: {} for an empty payload, the parsed value, or the raw bytes
DecodePayload(payload) ==
  IF payload = <<>> THEN PyDict(<<>>)
  ELSE LET r == Loads(payload)
       IN IF r.ok THEN r.val ELSE PyBytes(payload)

\* CallBeginFrom without the lookup of lines 81-82: an unknown name reaches
\* the try block, whose self.modules[...] raises KeyError (lines 102, 105-107)
CallBeginFromNoLookup(t, payloads) ==
  /\ server.state = "serving"
  /\ t <= server.max_workers
  /\ th[t].pc = "idle"
  /\ server.max_concurrent = 0 \/ Cardinality(InFlight) < server.max_concurrent
  /\ \E fn \in DOMAIN self.modules \cup {UnknownName}, p \in payloads :
       LET request == Request(fn, p)
       IN IF request.FunctionName \notin DOMAIN self.modules
          THEN /\ th' = [th EXCEPT ![t] = [IdleThread EXCEPT !.pc = "done", !.req = request, !.cwd0 = cwd, !.rpc = "active",
                                                               !.ctx = BuildCtx(request),
                                                               !.msg = DecodePayload(request.Payload),
                                                               !.curr_path = cwd,
                                                               !.out = Error(<<"[UserCodeInvoke] ", "KeyError">>)]]
               /\ log' = log \cup {<<"error", "KeyError">>}
          ELSE /\ th' = [th EXCEPT ![t] = [IdleThread EXCEPT !.pc = "chdir", !.req = request, !.cwd0 = cwd, !.rpc = "active",
                                                               !.ctx = BuildCtx(request),
                                                               !.msg = DecodePayload(request.Payload),
                                                               !.curr_path = cwd]]
               /\ log' = log
  /\ UNCHANGED <<conf, environ, self, cwd, syspath, mainpc, ld, server, sighandlers>>

\* The transport hands a request to a free pool thread, which runs Call up
\* to its first access to shared state: registry lookup (lines 81-82),
\* context (84-90), payload decoding (92-97) and os.getcwd() (line 101).
\* cwd0 records the working directory the Call started in.
CallBeginFrom(t, payloads) ==
  /\ server.state = "serving"
  /\ t <= server.max_workers
  /\ th[t].pc = "idle"
  /\ server.max_concurrent = 0 \/ Cardinality(InFlight) < server.max_concurrent
  /\ \E fn \in DOMAIN self.modules \cup {UnknownName}, p \in payloads :
       LET request == Request(fn, p)
       IN IF request.FunctionName \notin DOMAIN self.modules
          THEN th' = [th EXCEPT ![t] = [IdleThread EXCEPT !.pc = "done", !.req = request, !.cwd0 = cwd, !.rpc = "active",
                                                          !.out = Error(<<"function not found">>)]]
          ELSE th' = [th EXCEPT ![t] = [IdleThread EXCEPT !.pc = "chdir", !.req = request, !.cwd0 = cwd, !.rpc = "active",
                                                          !.ctx = BuildCtx(request),
                                                          !.msg = DecodePayload(request.Payload),
                                                          !.curr_path = cwd]]
  /\ UNCHANGED <<conf, environ, self, cwd, syspath, mainpc, ld, server, sighandlers, log>>

CallBegin(t) == CallBeginFrom(t, Payloads)

CallBeginSeq(t) == CallBeginFrom(t, SeqPayloads)

\* line 102; a failing chdir is caught at lines 105-107
CallChdir(t) ==
  /\ ThreadsRun
  /\ th[t].pc = "chdir"
  /\ LET target == PathJoin(th[t].curr_path, GetCodedir(self.modules[th[t].req.FunctionName]))
     IN IF ChdirOk(target)
        THEN /\ cwd' = target
             /\ log' = log
             /\ th' = [th EXCEPT ![t].pc = "handler"]
        ELSE /\ cwd' = cwd
             /\ log' = log \cup {<<"error", "FileNotFoundError">>}
             /\ th' = [th EXCEPT ![t].pc = "done",
                                  ![t].out = Error(<<"[UserCodeInvoke] ", "FileNotFoundError">>)]
  /\ UNCHANGED <<conf, environ, self, syspath, mainpc, ld, server, sighandlers>>

\* line 103: the handler is entered with msg and ctx
CallInvoke(t) ==
  /\ ThreadsRun
  /\ th[t].pc = "handler"
  /\ th' = [th EXCEPT ![t].pc = "in_handler",
                       ![t].ran = Append(th[t].ran,
                                         [fn |-> th[t].req.FunctionName, msg |-> th[t].msg, cwd |-> cwd])]
  /\ UNCHANGED <<conf, environ, self, cwd, syspath, mainpc, ld, server, sighandlers, log>>

\* HandlerFinish that logs the handler's exception and goes on as if the
\* handler had returned None
HandlerFinishSwallow(t) ==
  /\ ThreadsRun
  /\ th[t].pc = "in_handler"
  /\ LET r == HandlerRun(self.modules[th[t].req.FunctionName].cls, th[t].msg, th[t].ctx, cwd)
     IN /\ cwd' = r.cwd
        /\ IF r.raised
           THEN /\ log' = log \cup {<<"error", "HandlerError">>}
                /\ th' = [th EXCEPT ![t].pc = "restore", ![t].msg = PyNone]
           ELSE /\ log' = log
                /\ th' = [th EXCEPT ![t].pc = "restore", ![t].msg = r.ret, ![t].ctx = r.ctx]
  /\ UNCHANGED <<conf, environ, self, syspath, mainpc, ld, server, sighandlers>>

\* HandlerFinish that drops a function from the registry when its handler
\* raises
HandlerFinishEvict(t) ==
  /\ ThreadsRun
  /\ th[t].pc = "in_handler"
  /\ LET fn == th[t].req.FunctionName
         r == HandlerRun(self.modules[fn].cls, th[t].msg, th[t].ctx, cwd)
     IN /\ cwd' = r.cwd
        /\ IF r.raised
           THEN /\ log' = log \cup {<<"error", "HandlerError">>}
                /\ th' = [th EXCEPT ![t].pc = "done",
                                     ![t].out = Error(<<"[UserCodeInvoke] ", "HandlerError">>)]
                /\ self' = [self EXCEPT !.modules = [n \in DOMAIN self.modules \ {fn} |-> self.modules[n]]]
           ELSE /\ log' = log
                /\ th' = [th EXCEPT ![t].pc = "restore", ![t].msg = r.ret, ![t].ctx = r.ctx]
                /\ self' = self
  /\ UNCHANGED <<conf, environ, syspath, mainpc, ld, server, sighandlers>>

\* line 103: the handler returns (msg is rebound) or raises (lines 105-107)
HandlerFinish(t) ==
  /\ ThreadsRun
  /\ th[t].pc = "in_handler"
  /\ LET r == HandlerRun(self.modules[th[t].req.FunctionName].cls, th[t].msg, th[t].ctx, cwd)
     IN /\ cwd' = r.cwd
        /\ IF r.raised
           THEN /\ log' = log \cup {<<"error", "HandlerError">>}
                /\ th' = [th EXCEPT ![t].pc = "done",
                                     ![t].out = Error(<<"[UserCodeInvoke] ", "HandlerError">>)]
           ELSE /\ log' = log
                /\ th' = [th EXCEPT ![t].pc = "restore", ![t].msg = r.ret, ![t].ctx = r.ctx]
  /\ UNCHANGED <<conf, environ, self, syspath, mainpc, ld, server, sighandlers>>

\* line 104
CallRestore(t) ==
  /\ ThreadsRun
  /\ th[t].pc = "restore"
  /\ cwd' = th[t].curr_path
  /\ th' = [th EXCEPT ![t].pc = "encode"]
  /\ UNCHANGED <<conf, environ, self, syspath, mainpc, ld, server, sighandlers, log>>

\* EncodeResult without the test of lines 109-110: None is serialised as the
\* JSON text null
EncodeResultNoneAsNull(msg) ==
  IF msg.t = "bytes" THEN [ok |-> TRUE, out |-> msg.b]
  ELSE Dumps(msg)

\* lines 109-118: the handler's return value as the response payload
EncodeResult(msg) ==
  IF msg = PyNone THEN [ok |-> TRUE, out |-> <<>>]
  ELSE IF msg.t = "bytes" THEN [ok |-> TRUE, out |-> msg.b]
  ELSE Dumps(msg)

\* CallEncode that builds the response from the entries of ctx instead of
\* returning the request object
CallEncodeFromCtx(t) ==
  /\ ThreadsRun
  /\ th[t].pc = "encode"
  /\ LET e == EncodeResult(th[t].msg)
         c == th[t].ctx
     IN IF e.ok
        THEN /\ log' = log
             /\ th' = [th EXCEPT ![t].pc = "done",
                                  ![t].out = Response([FunctionName |-> c.functionName, Payload |-> e.out,
                                                       QOS |-> c.messageQOS, Topic |-> c.messageTopic,
                                                       Timestamp |-> c.messageTimestamp,
                                                       FunctionInvokeID |-> c.functionInvokeID])]
        ELSE /\ log' = log \cup {<<"error", "TypeError">>}
             /\ th' = [th EXCEPT ![t].pc = "done",
                                  ![t].out = Error(<<"[UserCodeReturn] ", "TypeError">>)]
  /\ UNCHANGED <<conf, environ, self, cwd, syspath, mainpc, ld, server, sighandlers>>

\* lines 109-119
CallEncode(t) ==
  /\ ThreadsRun
  /\ th[t].pc = "encode"
  /\ LET e == EncodeResult(th[t].msg)
     IN IF e.ok
        THEN /\ log' = log
             /\ th' = [th EXCEPT ![t].pc = "done",
                                  ![t].out = Response([th[t].req EXCEPT !.Payload = e.out])]
        ELSE /\ log' = log \cup {<<"error", "TypeError">>}
             /\ th' = [th EXCEPT ![t].pc = "done",
                                  ![t].out = Error(<<"[UserCodeReturn] ", "TypeError">>)]
  /\ UNCHANGED <<conf, environ, self, cwd, syspath, mainpc, ld, server, sighandlers>>

\* the transport sends the response or the error status; the thread is free
CallReturn(t) ==
  /\ ThreadsRun
  /\ th[t].pc = "done"
  /\ th' = [th EXCEPT ![t] = IdleThread]
  /\ UNCHANGED <<conf, environ, self, cwd, syspath, mainpc, ld, server, sighandlers, log>>

\* mo.Talk (lines 121-125): a pool thread takes the stream
TalkBegin(t) ==
  /\ server.state = "serving"
  /\ t <= server.max_workers
  /\ th[t].pc = "idle"
  /\ server.max_concurrent = 0 \/ Cardinality(InFlight) < server.max_concurrent
  /\ th' = [th EXCEPT ![t] = [IdleThread EXCEPT !.pc = "talk", !.rpc = "active"]]
  /\ UNCHANGED <<conf, environ, self, cwd, syspath, mainpc, ld, server, sighandlers, log>>

\* line 125: the body is pass; Talk returns and the thread is free
TalkReturn(t) ==
  /\ ThreadsRun
  /\ th[t].pc = "talk"
  /\ th' = [th EXCEPT ![t] = IdleThread]
  /\ UNCHANGED <<conf, environ, self, cwd, syspath, mainpc, ld, server, sighandlers, log>>

Next ==
  \/ LoadConfig
  \/ LoadModulesIter
  \/ LoadModulesReturn
  \/ GetGrpcServer
  \/ Start
  \/ InstallSigint
  \/ InstallSigterm
  \/ \E sig \in Signals : Signal(sig)
  \/ Close
  \/ CloseReturn
  \/ Tick
  \/ ServerStopped
  \/ \E t \in Workers : TalkBegin(t)
  \/ \E t \in Workers : TalkReturn(t)
  \/ \E t \in Workers : CallBegin(t)
  \/ \E t \in Workers : CallChdir(t)
  \/ \E t \in Workers : CallInvoke(t)
  \/ \E t \in Workers : HandlerFinish(t)
  \/ \E t \in Workers : CallRestore(t)
  \/ \E t \in Workers : CallEncode(t)
  \/ \E t \in Workers : CallReturn(t)

Spec == Init /\ [][Next]_vars

\* the runs of a one-thread pool, with the larger set of payloads
InitSeq == InitWith(SeqInputs)

NextSeq ==
  \/ LoadConfig
  \/ LoadModulesIter
  \/ LoadModulesReturn
  \/ GetGrpcServer
  \/ Start
  \/ InstallSigint
  \/ InstallSigterm
  \/ \E sig \in Signals : Signal(sig)
  \/ Close
  \/ CloseReturn
  \/ Tick
  \/ ServerStopped
  \/ \E t \in Workers : TalkBegin(t)
  \/ \E t \in Workers : TalkReturn(t)
  \/ \E t \in Workers : CallBeginSeq(t)
  \/ \E t \in Workers : CallChdir(t)
  \/ \E t \in Workers : CallInvoke(t)
  \/ \E t \in Workers : HandlerFinish(t)
  \/ \E t \in Workers : CallRestore(t)
  \/ \E t \in Workers : CallEncode(t)
  \/ \E t \in Workers : CallReturn(t)

SpecSeq == InitSeq /\ [][NextSeq]_vars

\* ------------------------------------------------------------------ claims
Registered(t) == "modules" \in DOMAIN self /\ th[t].req.FunctionName \in DOMAIN self.modules

Done(t) == th[t].pc = "done"

\* C1: after every completed Call of a sequential run, ended with a response
\* or with an error, the process working directory equals the working
\* directory the Call started in.
C1_CwdRestoredAfterCall ==
  \A t \in Workers : Done(t) => cwd = th[t].cwd0

\* echo returns its input, boom raises
EchoBoomRegistered ==
  /\ "modules" \in DOMAIN self
  /\ {"echo", "boom"} \subseteq DOMAIN self.modules
  /\ HandlerClasses[self.modules["echo"].cls].kind = "echo"
  /\ HandlerClasses[self.modules["boom"].cls].kind = "raise"

\* C2: with echo and boom registered, once a Call to boom has failed (the
\* handler's error is in the log) every completed Call to echo with payload
\* {"x":1} has returned a response whose payload decodes to {"x": 1}.
C2_EchoServedAfterBoom ==
  \A t \in Workers :
    (/\ EchoBoomRegistered
     /\ <<"error", "HandlerError">> \in log
     /\ Done(t)
     /\ th[t].req.FunctionName = "echo"
     /\ th[t].req.Payload = PayloadX1)
    => /\ th[t].out.kind = "response"
       /\ Loads(th[t].out.resp.Payload) = [ok |-> TRUE, val |-> PyDict(<<[k |-> PyStr(<<"x">>), v |-> PyInt(1)]>>)]

\* a pool thread takes a request whose FunctionName is not in the registry
UnknownCallStep(t) ==
  /\ th[t].pc = "idle"
  /\ th'[t].pc \notin {"idle", "talk"}
  /\ th'[t].req.FunctionName \notin DOMAIN self.modules

\* C3: a Call whose FunctionName is not a key of the registry fails with
\* 'function not found', invokes no handler, and leaves the working
\* directory and the registry as they were.
C3_UnknownFunctionRejected ==
  [][\A t \in Workers :
       UnknownCallStep(t) =>
         /\ th'[t].pc = "done"
         /\ th'[t].out = Error(<<"function not found">>)
         /\ th'[t].ran = <<>>
         /\ cwd' = cwd
         /\ self' = self
         /\ \A u \in Workers \ {t} : th'[u] = th[u]]_vars

C3_Witness ==
  \E t \in Workers :
    /\ Done(t)
    /\ th[t].req.FunctionName = UnknownName
    /\ th[t].out = Error(<<"function not found">>)
    /\ cwd # Base

\* the outcome of a Call of request run with no other Call in the process,
\* from the working directory the service was loaded in
SoloOutcome(request) ==
  IF request.FunctionName \notin DOMAIN self.modules THEN Error(<<"function not found">>)
  ELSE LET inst == self.modules[request.FunctionName]
           target == PathJoin(Base, inst.codedir)
       IN IF target \notin ExistingDirs THEN Error(<<"[UserCodeInvoke] ", "FileNotFoundError">>)
          ELSE IF HandlerClasses[inst.cls].kind = "raise" THEN Error(<<"[UserCodeInvoke] ", "HandlerError">>)
          ELSE LET ret == IF HandlerClasses[inst.cls].kind = "echo"
                          THEN (IF request.Payload = <<>> THEN PyDict(<<>>)
                                ELSE IF Loads(request.Payload).ok THEN Loads(request.Payload).val
                                ELSE PyBytes(request.Payload))
                          ELSE HandlerClasses[inst.cls].val
               IN IF ret = PyNone THEN Response([request EXCEPT !.Payload = <<>>])
                  ELSE IF ret.t = "bytes" THEN Response([request EXCEPT !.Payload = ret.b])
                  ELSE IF Dumps(ret).ok THEN Response([request EXCEPT !.Payload = Dumps(ret).out])
                  ELSE Error(<<"[UserCodeReturn] ", "TypeError">>)

\* C4: when two Calls are in flight at the same time on different threads
\* and one of them has failed, the other ends with the outcome it would have
\* had if it had run alone.
C4_ConcurrentCallsIsolated ==
  \A t, u \in Workers :
    (t # u /\ Done(t) /\ Done(u) /\ th[u].out.kind = "error")
    => th[t].out = SoloOutcome(th[t].req)

\* the names of the function list, where an entry has one
HasDuplicateNames(c) ==
  /\ "functions" \in DOMAIN c
  /\ \E i, j \in 1..Len(c.functions) :
       /\ i < j
       /\ "name" \in DOMAIN c.functions[i]
       /\ "name" \in DOMAIN c.functions[j]
       /\ c.functions[i].name = c.functions[j].name

\* C5: when the function list holds two entries with the same name, no
\* registry is produced and the server never runs.
C5_DuplicateNamesRejected ==
  HasDuplicateNames(conf) => "modules" \notin DOMAIN self /\ server.state # "serving"

\* C6: load_modules leaves the working directory equal to its value on
\* entry, after it returns and after it fails on any function.
C6_LoadRestoresCwd ==
  (server.state = "absent" /\ mainpc \in {"crashed", "get_grpc_server"}) => cwd = Base

\* C7: whenever the server accepts calls or a Call is in flight, load_modules
\* has run through the whole function list, the registry is bound, and it
\* holds a handler under the name of every configured function and under no
\* other name.
C7_NoCallBeforeRegistryLoaded ==
  (server.state = "serving" \/ InFlight # {}) =>
    /\ "modules" \in DOMAIN self
    /\ ld.i > Len(self.config.functions)
    /\ self.modules = ld.fs
    /\ \A i \in 1..Len(self.config.functions) :
         /\ "name" \in DOMAIN self.config.functions[i]
         /\ self.config.functions[i].name \in DOMAIN self.modules
    /\ \A n \in DOMAIN self.modules :
         \E i \in 1..Len(self.config.functions) : self.config.functions[i].name = n

C7_Witness ==
  /\ server.state = "serving"
  /\ \E t \in Workers : th[t].pc = "in_handler"
  /\ Cardinality(DOMAIN self.modules) >= 2

\* the configuration as Load sees it has one of the fatal errors: a missing
\* name, server, server address or function list, a function entry without
\* name, handler or codedir, a handler that cannot be loaded (no such code
\* directory, module file or class, or a constructor that raises), or TLS
\* material that cannot be read
FatalStartupError ==
  LET c == EffectiveConfig(conf, environ)
  IN \/ "name" \notin DOMAIN c
     \/ "server" \notin DOMAIN c
     \/ "address" \notin DOMAIN c.server
     \/ "functions" \notin DOMAIN c
     \/ \E i \in 1..Len(c.functions) :
          LET fc == c.functions[i]
          IN \/ "name" \notin DOMAIN fc
             \/ "handler" \notin DOMAIN fc
             \/ "codedir" \notin DOMAIN fc
             \/ PathJoin(Base, fc.codedir) \notin ExistingDirs
             \/ Len(fc.handler) < 2
             \/ ~HasModuleFile(PathJoin(Base, fc.codedir), fc.handler[Len(fc.handler) - 1])
             \/ fc.handler[Len(fc.handler)] \notin DOMAIN HandlerClasses
             \/ HandlerClasses[fc.handler[Len(fc.handler)]].ctor = "raise"
     \/ \E k \in {"ca", "key", "cert"} \cap DOMAIN c.server : c.server[k] \notin ReadableFiles

\* C8: in a run whose configuration has a fatal startup error, Load never
\* returns: the main thread is inside Load or has ended with the exception,
\* no server object exists, Start has not logged and no Call is in flight.
C8_FatalStartupNeverRuns ==
  FatalStartupError =>
    /\ mainpc \in {"Load", "load_modules", "get_grpc_server", "crashed", "killed"}
    /\ server.state = "absent"
    /\ <<"info", "service starting">> \notin log
    /\ InFlight = {}

C8_Witness ==
  /\ FatalStartupError
  /\ mainpc = "crashed"
  /\ "modules" \in DOMAIN self
  /\ "ca" \in DOMAIN self.config.server

\* values json.loads can return: None, bool, int, str, list, str-keyed dict
RECURSIVE IsJsonNative(_)
IsJsonNative(v) ==
  CASE v.t \in {"none", "bool", "int", "str"} -> TRUE
    [] v.t = "list" -> \A i \in 1..Len(v.items) : IsJsonNative(v.items[i])
    [] v.t = "dict" -> \A i \in 1..Len(v.pairs) : v.pairs[i].k.t = "str" /\ IsJsonNative(v.pairs[i].v)
    [] OTHER -> FALSE

\* C9 as stated: the payload of a response is empty for None, the bytes
\* themselves for bytes, and for any other value v a text that json decodes
\* to v.
C9_ResponseDecodesToReturnValue ==
  \A t \in Workers :
    (Done(t) /\ th[t].out.kind = "response") =>
      LET v == th[t].msg
          p == th[t].out.resp.Payload
      IN IF v = PyNone THEN p = <<>>
         ELSE IF v.t = "bytes" THEN p = v.b
         ELSE Loads(p) = [ok |-> TRUE, val |-> v]

\* C9 amended: the payload of a response is empty for None, the bytes
\* themselves for bytes, and for any other value v a JSON text, which decodes
\* to v when v is built from None, bool, int, str, list and str-keyed dict.
C9_ResponseEncoding ==
  \A t \in Workers :
    (Done(t) /\ th[t].out.kind = "response") =>
      LET v == th[t].msg
          p == th[t].out.resp.Payload
      IN IF v = PyNone THEN p = <<>>
         ELSE IF v.t = "bytes" THEN p = v.b
         ELSE /\ Loads(p).ok
              /\ IsJsonNative(v) => Loads(p).val = v

C9_Witness ==
  \E t \in Workers :
    /\ Done(t)
    /\ th[t].out.kind = "response"
    /\ th[t].msg = PyList(<<PyInt(1), PyStr(<<"a">>), PyNone>>)
    /\ Loads(th[t].out.resp.Payload).val = th[t].msg

\* the message the three cases of C10 name for a payload
ExpectedMessage(payload) ==
  IF payload = <<>> THEN PyDict(<<>>)
  ELSE IF Loads(payload).ok THEN Loads(payload).val
  ELSE PyBytes(payload)

C11_EnvelopeUnchanged ==
  \A t \in Workers :
    (Done(t) /\ th[t].out.kind = "response") =>
      /\ th[t].out.resp.QOS = th[t].req.QOS
      /\ th[t].out.resp.Topic = th[t].req.Topic
      /\ th[t].out.resp.Timestamp = th[t].req.Timestamp
      /\ th[t].out.resp.FunctionName = th[t].req.FunctionName
      /\ th[t].out.resp.FunctionInvokeID = th[t].req.FunctionInvokeID

\* a response returned after the handler overwrote every entry of ctx
C11_Witness ==
  \E t \in Workers :
    /\ Done(t)
    /\ th[t].out.kind = "response"
    /\ th[t].ctx = OverwrittenCtx
    /\ th[t].out.resp.FunctionInvokeID = "id1"
    /\ th[t].out.resp.Payload # th[t].req.Payload

\* Close has run to its end: line 74 has logged
CloseCompleted == <<"info", "service closed">> \in log

\* C12: once a first Close has completed, a second Close leaves the server
\* object as the first one left it, its stage and grace deadline included,
\* and changes nothing for the RPCs in flight; the server takes no new call
\* before or after it.
C12_CloseIdempotent ==
  CloseCompleted =>
    LET r == CloseResult(server, th, self.config)
    IN /\ r.server = server
       /\ r.th = th
       /\ server.state \in {"grace", "stopped"}

\* a first Close has returned while a Call is still in its handler, one
\* second into the grace period
C12_Witness ==
  /\ CloseCompleted
  /\ server.state = "grace"
  /\ server.elapsed = 1
  /\ \E t \in Workers : th[t].pc = "in_handler" /\ th[t].rpc = "active"

\* Close has called server.stop, the configuration sets a grace period, and
\* that many seconds have gone by since
GraceElapsed ==
  /\ server.stop_called
  /\ "timeout" \in DOMAIN self.config.server
  /\ server.elapsed >= self.config.server.timeout \div NanosPerSecond

\* the pool thread t is inside mo.Call
Executing(t) == th[t].pc \in {"chdir", "handler", "in_handler", "restore", "encode"}

\* C13 as stated: once the configured grace period has elapsed after Close,
\* no Call is still executing.
C13_NoCallExecutingAfterGrace ==
  GraceElapsed => \A t \in Workers : ~Executing(t)

\* C13 amended: once the configured grace period has elapsed after Close, the
\* server is stopped and no RPC is active: each one has completed or has
\* been aborted (the pool thread of an aborted one may still be in its
\* handler).
C13_NoRpcActiveAfterGrace ==
  GraceElapsed =>
    /\ server.state = "stopped"
    /\ \A t \in Workers : th[t].rpc # "active"

\* the grace period has ended with two Calls to different functions in
\* their handlers: both RPCs were aborted
C13_Witness ==
  /\ GraceElapsed
  /\ \E t, u \in Workers :
       /\ th[t].pc = "in_handler" /\ th[t].rpc = "aborted"
       /\ th[u].pc = "in_handler" /\ th[u].rpc = "aborted"
       /\ th[t].req.FunctionName # th[u].req.FunctionName

\* mo.Start has run: line 62 has logged and the server has been started
Started == <<"info", "service starting">> \in log

\* C14: when the process has ended after the server was started (only a
\* signal ends it), Close has been executed: server.stop was called with the
\* configured grace period.
C14_SignalRunsClose ==
  (Started /\ mainpc \in {"crashed", "killed", "exited"}) =>
    /\ server.stop_called
    /\ server.grace_set = ("timeout" \in DOMAIN self.config.server)

\* the registered code directory of the function thread t calls, resolved
\* against the directory the service was started in
OwnCodedir(t) == PathJoin(Base, GetCodedir(self.modules[th[t].req.FunctionName]))

\* C15: when two Calls to different registered functions with different
\* code directories are in flight together, each handler that has been
\* entered was entered with the working directory at its own code directory.
C15_HandlerEnteredInOwnCodedir ==
  \A t, u \in Workers :
    (/\ t # u
     /\ th[t].pc \notin {"idle", "talk"} /\ th[u].pc \notin {"idle", "talk"}
     /\ Registered(t) /\ Registered(u)
     /\ th[t].req.FunctionName # th[u].req.FunctionName
     /\ OwnCodedir(t) # OwnCodedir(u)
     /\ th[t].ran # <<>>)
    => th[t].ran[1].cwd = OwnCodedir(t)

\* no Call has failed in its try block or at the encoding step so far: both
\* log before they raise (lines 106, 117)
NoCallFailed == \A e \in log : e[1] # "error"

\* C16: in a run of a started server that was not killed and whose Calls
\* have all returned successfully, whenever no Call is executing the working directory is the
\* one the service was started in, which was in force before the first Call.
C16_CwdRestoredAfterConcurrentCalls ==
  (Started /\ mainpc # "killed" /\ NoCallFailed /\ \A t \in Workers : ~Executing(t)) => cwd = Base

\* the moves of the lifecycle: Unstarted (no server object, or one not yet
\* started), Running, Stopping, Stopped
LifecycleMoves ==
  {<<"absent", "created">>, <<"created", "serving">>, <<"serving", "grace">>, <<"grace", "stopped">>}

\* Close has been invoked: server.stop was called or Close has logged
CloseInvoked == server.stop_called \/ CloseCompleted

\* C17: the server changes state only along Unstarted, Running, Stopping,
\* Stopped, one move at a time while the process lives (the end of the
\* process leaves it stopped); once Close has been invoked the server is
\* never running again and no idle pool thread is given a new call.
C17_LinearLifecycle ==
  [][/\ server'.state # server.state =>
          \/ <<server.state, server'.state>> \in LifecycleMoves
          \/ mainpc' \in {"crashed", "killed", "exited"} /\ server'.state = "stopped"
     /\ CloseInvoked =>
          /\ server'.state \notin {"absent", "created", "serving"}
          /\ \A t \in Workers : th[t].pc = "idle" => th'[t].pc = "idle"]_vars

\* Close has run, the grace period has ended and the pool is idle
C17_Witness ==
  /\ CloseCompleted
  /\ server.stop_called
  /\ server.state = "stopped"
  /\ server.elapsed = server.grace
  /\ server.grace > 0
  /\ \A t \in Workers : th[t].pc = "idle"

\* C18: once Load has bound the registry, no step of Start, Close, Call,
\* Talk, a signal or the server changes it: the registered names and the
\* handler instance under each name stay as they are.
C18_RegistryReadOnly ==
  [][("modules" \in DOMAIN self) =>
       /\ "modules" \in DOMAIN self'
       /\ DOMAIN self'.modules = DOMAIN self.modules
       /\ \A n \in DOMAIN self.modules : self'.modules[n] = self.modules[n]]_vars

\* after Close, with a Talk stream and a failed Call still on the pool, the
\* registry holds what load_modules returned
C18_Witness ==
  /\ CloseInvoked
  /\ \E t, u \in Workers :
       /\ th[t].pc = "talk"
       /\ Done(u) /\ th[u].out = Error(<<"[UserCodeInvoke] ", "HandlerError">>)
  /\ self.modules = ld.fs
  /\ DOMAIN self.modules = {"echo", "boom"}

\* values json.dumps serialises: None, bool, int, str, lists and tuples of
\* such values, dicts of them under None, bool, int or str keys
RECURSIVE JsonEncodable(_)
JsonEncodable(v) ==
  CASE v.t \in {"none", "bool", "int", "str"} -> TRUE
    [] v.t \in {"list", "tuple"} -> \A i \in 1..Len(v.items) : JsonEncodable(v.items[i])
    [] v.t = "dict" -> \A i \in 1..Len(v.pairs) :
                         /\ v.pairs[i].k.t \in {"none", "bool", "int", "str"}
                         /\ JsonEncodable(v.pairs[i].v)
    [] OTHER -> FALSE

\* the handler of the function thread t called
HandlerOf(t) == HandlerClasses[self.modules[th[t].req.FunctionName].cls]

\* C19: a Call whose handler was entered and raised ends with the exception
\* ('[UserCodeInvoke] ', err) around the handler's error, logged, and no
\* response; a Call whose handler returned a value that is neither None nor
\* bytes and cannot be JSON-encoded ends with ('[UserCodeReturn] ', err),
\* logged, whose first argument differs from that of the handler error and
\* from 'function not found'.
C19_FailuresKeepKind ==
  \A t \in Workers :
    (Done(t) /\ Registered(t) /\ th[t].ran # <<>>) =>
      /\ HandlerOf(t).kind = "raise" =>
           /\ th[t].out.kind = "error"
           /\ th[t].out.args = <<"[UserCodeInvoke] ", "HandlerError">>
           /\ <<"error", "HandlerError">> \in log
      /\ (HandlerOf(t).kind # "raise" /\ th[t].msg # PyNone /\ th[t].msg.t # "bytes"
            /\ ~JsonEncodable(th[t].msg)) =>
           /\ th[t].out.kind = "error"
           /\ Len(th[t].out.args) = 2
           /\ th[t].out.args[1] = "[UserCodeReturn] "
           /\ th[t].out.args[1] \notin {"[UserCodeInvoke] ", "function not found"}
           /\ <<"error", "TypeError">> \in log
      /\ (HandlerOf(t).kind # "raise"
            /\ (th[t].msg = PyNone \/ th[t].msg.t = "bytes" \/ JsonEncodable(th[t].msg))) =>
           th[t].out.kind = "response"

\* a Call whose handler was entered and returned an object json cannot
\* encode has ended with the encoding error
C19_Witness ==
  /\ \E t \in Workers :
       /\ Done(t)
       /\ th[t].ran # <<>>
       /\ th[t].msg = PyObject
       /\ th[t].out = Error(<<"[UserCodeReturn] ", "TypeError">>)
  /\ <<"error", "TypeError">> \in log

\* C20: a completed Call to a registered function has entered the handler
\* of that function exactly once and no other handler, and it ends with
\* ('[UserCodeInvoke] ', err) only if that handler raised.
C20_HandlerInvokedExactlyOnce ==
  \A t \in Workers :
    (Done(t) /\ Registered(t)) =>
      /\ Len(th[t].ran) = 1
      /\ th[t].ran[1].fn = th[t].req.FunctionName
      /\ (th[t].out.kind = "error" /\ th[t].out.args[1] = "[UserCodeInvoke] ")
           => HandlerOf(t).kind = "raise"
====
